---- MODULE Spec2Model ----
(***************************************************************************)
(* A model of the piano MIDI optimizer (piano-midi-optimizer.js) and of    *)
(* its web front end (web-interface.js).                                   *)
(*                                                                         *)
(* Four specifications share one set of variables:                         *)
(*   Spec          the top-level entry point optimizeMidiForPiano          *)
(*   BalancerSpec  optimizeSimultaneousNotes with createTimeSlices         *)
(*   EmitSpec      generatePianoMidi with a library that rejects notes     *)
(*   WebSpec       two /optimize requests, downloads and cleanup timers    *)
(* Each keeps the variables of the other three at their idle values.       *)
(***************************************************************************)
EXTENDS Integers, Sequences, FiniteSets, TLC

VARIABLES
  \* optimizeMidiForPiano
  pc,                \* position in optimizeMidiForPiano
  midi,              \* midi.tracks as parsed: a sequence of [channel, notes]
  config,            \* { ...defaultOptions, ...options }
  analyzedTracks,    \* result of analyzeMidiTracks
  pianoArrangement,  \* result of createPianoArrangement
  outputMidi,        \* result of generatePianoMidi (its tracks)
  \* optimizeSimultaneousNotes
  bpc,               \* position in optimizeSimultaneousNotes
  rightHandCopy,     \* deep copy of the rightHand argument
  leftHandCopy,      \* deep copy of the leftHand argument
  bconfig,           \* the config argument
  timeSlices,        \* result of createTimeSlices
  sliceIndex,        \* index of the forEach over timeSlices (1-based)
  simultaneousRight, \* the slice's right subset
  simultaneousLeft,  \* the slice's left subset
  optimizedRight,    \* accumulated right-hand result
  optimizedLeft,     \* accumulated left-hand result
  moves,             \* the splice/push pairs the while loops did in this slice
  \* generatePianoMidi
  epc,               \* position in generatePianoMidi
  arrangement,       \* the arrangement argument
  rejected,          \* the notes for which the library's addNote throws
  tracks,            \* output.tracks
  errorLog,          \* console.error lines
  \* web-interface
  clock,             \* Date.now(), in milliseconds
  req,               \* per request: its handler's locals and position
  files,             \* the uploads directory: path -> content
  timers,            \* pending setTimeout callbacks: the path each will unlink
  dl                 \* the GET /download requests so far: path and position

pipelineVars == <<pc, midi, config, analyzedTracks, pianoArrangement, outputMidi>>
balancerVars == <<bpc, rightHandCopy, leftHandCopy, bconfig, timeSlices, sliceIndex,
                  simultaneousRight, simultaneousLeft, optimizedRight, optimizedLeft,
                  moves>>
emitVars     == <<epc, arrangement, rejected, tracks, errorLog>>
webVars      == <<clock, req, files, timers, dl>>
vars         == <<pipelineVars, balancerVars, emitVars, webVars>>

----------------------------------------------------------------------------
(* Bounds of the model *)

MaxTracks     == 2   \* tracks in the parsed file
MaxTrackNotes == 2   \* notes per track

----------------------------------------------------------------------------
(* Program constants *)

DrumChannel     == 9
MelodyThreshold == 65
BassThreshold   == 52
DefaultVelocity == 64

----------------------------------------------------------------------------
(* Helpers on sequences *)

Range(s) == {s[i] : i \in DOMAIN s}

SeqsUpTo(S, n) == UNION {[1..k -> S] : k \in 0..n}

RECURSIVE SumSeq(_)
SumSeq(s) == IF s = <<>> THEN 0 ELSE s[1] + SumSeq(Tail(s))

RECURSIVE FlatSeq(_)
FlatSeq(ss) == IF ss = <<>> THEN <<>> ELSE ss[1] \o FlatSeq(Tail(ss))

\* The multiset of the elements of a sequence.
BagOf(s) == [x \in Range(s) |-> Cardinality({i \in DOMAIN s : s[i] = x})]

----------------------------------------------------------------------------
(* Notes *)

Note(m, t, d, v) == [midi |-> m, time |-> t, duration |-> d, velocity |-> v]

\* note.velocity || 64: a falsy velocity (absent, or 0) becomes 64.
VelocityOrDefault(v) == IF v = 0 THEN DefaultVelocity ELSE v

\* { midi, time, duration, velocity: note.velocity || 64 }
CopyNote(n) == Note(n.midi, n.time, n.duration, VelocityOrDefault(n.velocity))

\* The notes a parsed source track may hold (velocity 0 stands for a falsy one).
SourceNotes ==
  { Note(40, 0, 1, 0),   Note(52, 0, 2, 100), Note(59, 1, 1, 100),
    Note(60, 0, 1, 0),   Note(65, 1, 1, 100), Note(100, 0, 1, 100) }

SourceChannels == {0, DrumChannel}

SourceTracks == [channel : SourceChannels, notes : SeqsUpTo(SourceNotes, MaxTrackNotes)]

SplitPoints    == {53, 60}
MaxRightValues == {1, 12}
MaxLeftValues  == {1, 10}

Configs == [splitPoint : SplitPoints,
            maxRightHandNotes : MaxRightValues,
            maxLeftHandNotes : MaxLeftValues,
            dynamicSplitPoint : BOOLEAN,
            preserveMelody : BOOLEAN,
            preserveBass : BOOLEAN]

----------------------------------------------------------------------------
(* analyzeMidiTracks *)

\* The comparisons made non-strict: a mean of exactly 65 or 52 changes role.
TrackRoleMut(pitchSum, noteCount) ==
  IF pitchSum >= MelodyThreshold * noteCount THEN "melody"
  ELSE IF pitchSum <= BassThreshold * noteCount THEN "bass"
  ELSE "harmony"

\* avgPitch = sum / length is kept as the exact fraction pitchSum / noteCount;
\* avgPitch > k is pitchSum > k * noteCount (the double division is exact
\* enough for this at any realistic track length).
TrackRole(pitchSum, noteCount) ==
  IF pitchSum > MelodyThreshold * noteCount THEN "melody"
  ELSE IF pitchSum < BassThreshold * noteCount THEN "bass"
  ELSE "harmony"

\* track.notes.map(note => note.midi)
Pitches(notes) == [i \in 1..Len(notes) |-> notes[i].midi]

\* track.notes.map(note => ({ ... }))
CopyNotes(notes) == [i \in 1..Len(notes) |-> CopyNote(notes[i])]

AnalyzeTrack(track, index) ==
  LET pitchSum == SumSeq(Pitches(track.notes))
      count    == Len(track.notes)
  IN  [index     |-> index,
       notes     |-> CopyNotes(track.notes),
       pitchSum  |-> pitchSum,
       trackRole |-> TrackRole(pitchSum, count),
       noteCount |-> count]

\* The channel test left out: drum tracks get through.
SkippedMut(track) == Len(track.notes) = 0

\* Empty tracks and drum tracks are skipped.
Skipped(track) == Len(track.notes) = 0 \/ track.channel = DrumChannel

RECURSIVE AnalyzeFrom(_, _)
AnalyzeFrom(trks, i) ==
  IF i > Len(trks) THEN <<>>
  ELSE (IF Skipped(trks[i]) THEN <<>> ELSE <<AnalyzeTrack(trks[i], i - 1)>>)
       \o AnalyzeFrom(trks, i + 1)

AnalyzeMidiTracks(trks) == AnalyzeFrom(trks, 1)

----------------------------------------------------------------------------
(* createPianoArrangement *)

\* return a.noteCount - b.noteCount: fewer notes first.
CompareTracksMut(a, b) ==
  IF a.trackRole = "melody" /\ b.trackRole # "melody" THEN -1
  ELSE IF a.trackRole # "melody" /\ b.trackRole = "melody" THEN 1
  ELSE IF a.trackRole = "bass" /\ b.trackRole # "bass" THEN -1
  ELSE IF a.trackRole # "bass" /\ b.trackRole = "bass" THEN 1
  ELSE a.noteCount - b.noteCount

\* The comparator of the sort; its sign is what the sort reads.
CompareTracks(a, b) ==
  IF a.trackRole = "melody" /\ b.trackRole # "melody" THEN -1
  ELSE IF a.trackRole # "melody" /\ b.trackRole = "melody" THEN 1
  ELSE IF a.trackRole = "bass" /\ b.trackRole # "bass" THEN -1
  ELSE IF a.trackRole # "bass" /\ b.trackRole = "bass" THEN 1
  ELSE b.noteCount - a.noteCount

\* Array.prototype.sort is stable: x goes after every element that does not
\* compare greater than it.
RECURSIVE InsertTrack(_, _)
InsertTrack(sorted, x) ==
  IF sorted = <<>> THEN <<x>>
  ELSE IF CompareTracks(sorted[1], x) <= 0
       THEN <<sorted[1]>> \o InsertTrack(Tail(sorted), x)
       ELSE <<x>> \o sorted

RECURSIVE SortTracks(_)
SortTracks(ts) ==
  IF ts = <<>> THEN <<>>
  ELSE InsertTrack(SortTracks(SubSeq(ts, 1, Len(ts) - 1)), ts[Len(ts)])

\* allNotes.push({ midi, time, duration, velocity || 64, trackRole })
TaggedNotes(track) ==
  [i \in 1..Len(track.notes) |->
     [midi      |-> track.notes[i].midi,
      time      |-> track.notes[i].time,
      duration  |-> track.notes[i].duration,
      velocity  |-> VelocityOrDefault(track.notes[i].velocity),
      trackRole |-> track.trackRole]]

AllNotes(analyzed) ==
  LET sortedTracks == SortTracks(analyzed)
  IN  FlatSeq([k \in 1..Len(sortedTracks) |-> TaggedNotes(sortedTracks[k])])

\* > for >=: a note at the split point goes left.
GoesRightMut(note, cfg) == note.trackRole = "melody" \/ note.midi > cfg.splitPoint

\* note.trackRole === 'melody' || note.midi >= config.splitPoint
GoesRight(note, cfg) == note.trackRole = "melody" \/ note.midi >= cfg.splitPoint

\* The forEach of the initial distribution, from position i on, with the two
\* hands built so far.
RECURSIVE Distribute(_, _, _, _, _)
Distribute(allNotes, i, cfg, rightHand, leftHand) ==
  IF i > Len(allNotes) THEN [rightHand |-> rightHand, leftHand |-> leftHand]
  ELSE IF GoesRight(allNotes[i], cfg)
       THEN Distribute(allNotes, i + 1, cfg, Append(rightHand, CopyNote(allNotes[i])), leftHand)
       ELSE Distribute(allNotes, i + 1, cfg, rightHand, Append(leftHand, CopyNote(allNotes[i])))

\* The ceilings consumed: each hand is cut to its ceiling.
CreatePianoArrangementMut(analyzed, cfg) ==
  LET d == Distribute(AllNotes(analyzed), 1, cfg, <<>>, <<>>)
      Cut(notes, k) == IF Len(notes) > k THEN SubSeq(notes, 1, k) ELSE notes
  IN  [rightHand |-> Cut(d.rightHand, cfg.maxRightHandNotes),
       leftHand  |-> Cut(d.leftHand, cfg.maxLeftHandNotes)]

CreatePianoArrangement(analyzed, cfg) == Distribute(AllNotes(analyzed), 1, cfg, <<>>, <<>>)

----------------------------------------------------------------------------
(* createTimeSlices *)

RECURSIVE SortAscending(_)
SortAscending(S) ==
  IF S = {} THEN <<>>
  ELSE LET m == CHOOSE x \in S : \A y \in S : x <= y
       IN  <<m>> \o SortAscending(S \ {m})

\* timePoints.add(note.time + note.duration) left out: start times only.
TimePointsMut(notes) == {notes[i].time : i \in DOMAIN notes}

TimePoints(notes) ==
  {notes[i].time : i \in DOMAIN notes} \cup
  {notes[i].time + notes[i].duration : i \in DOMAIN notes}

\* note.time <= startTime && note.time + note.duration >= endTime
Active(note, startTime, endTime) ==
  note.time <= startTime /\ note.time + note.duration >= endTime

RECURSIVE FilterActive(_, _, _)
FilterActive(notes, startTime, endTime) ==
  IF notes = <<>> THEN <<>>
  ELSE (IF Active(notes[1], startTime, endTime) THEN <<notes[1]>> ELSE <<>>)
       \o FilterActive(Tail(notes), startTime, endTime)

\* const startTime = sortedTimePoints[0]: every slice starts at the first
\* timepoint.
CreateTimeSlicesMut(notes) ==
  LET sortedTimePoints == SortAscending(TimePoints(notes))
  IN  [i \in 1..(Len(sortedTimePoints) - 1) |->
         [startTime |-> sortedTimePoints[1],
          endTime   |-> sortedTimePoints[i + 1],
          duration  |-> sortedTimePoints[i + 1] - sortedTimePoints[1],
          notes     |-> FilterActive(notes, sortedTimePoints[1], sortedTimePoints[i + 1])]]

CreateTimeSlices(notes) ==
  LET sortedTimePoints == SortAscending(TimePoints(notes))
  IN  [i \in 1..(Len(sortedTimePoints) - 1) |->
         [startTime |-> sortedTimePoints[i],
          endTime   |-> sortedTimePoints[i + 1],
          duration  |-> sortedTimePoints[i + 1] - sortedTimePoints[i],
          notes     |-> FilterActive(notes, sortedTimePoints[i], sortedTimePoints[i + 1])]]

----------------------------------------------------------------------------
(* generatePianoMidi *)

PianoInstrument == 0

\* The object handed to track.addNote.
AddNoteArgument(note) == CopyNote(note)

\* The library's addNote throws for the notes it rejects.
AddNoteThrows(note, rej) == AddNoteArgument(note) \in rej

\* One pass of a forEach body: try { track.addNote(...) } catch { log }.
TryAddNote(trackNotes, note, rej) ==
  IF AddNoteThrows(note, rej) THEN trackNotes
  ELSE Append(trackNotes, AddNoteArgument(note))

\* Without the try/catch the first throw ends the loop.
RECURSIVE AddNotesFromMut(_, _, _, _)
AddNotesFromMut(trackNotes, notes, i, rej) ==
  IF i > Len(notes) \/ AddNoteThrows(notes[i], rej) THEN trackNotes
  ELSE AddNotesFromMut(TryAddNote(trackNotes, notes[i], rej), notes, i + 1, rej)

\* The notes of a track after the forEach from position i on.
RECURSIVE AddNotesFrom(_, _, _, _)
AddNotesFrom(trackNotes, notes, i, rej) ==
  IF i > Len(notes) THEN trackNotes
  ELSE AddNotesFrom(TryAddNote(trackNotes, notes[i], rej), notes, i + 1, rej)

\* The console.error lines of one forEach: the hand and the 0-based index.
RECURSIVE ErrorsFrom(_, _, _, _)
ErrorsFrom(hand, notes, i, rej) ==
  IF i > Len(notes) THEN <<>>
  ELSE (IF AddNoteThrows(notes[i], rej) THEN <<[hand |-> hand, index |-> i - 1]>> ELSE <<>>)
       \o ErrorsFrom(hand, notes, i + 1, rej)

NewTrack(name) == [name |-> name, instrument |-> PianoInstrument, notes |-> <<>>]

\* output.tracks when generatePianoMidi returns.
GeneratePianoMidi(arr, rej) ==
  << [NewTrack("Right Hand") EXCEPT !.notes = AddNotesFrom(<<>>, arr.rightHand, 1, rej)],
     [NewTrack("Left Hand")  EXCEPT !.notes = AddNotesFrom(<<>>, arr.leftHand, 1, rej)] >>

\* What generatePianoMidi logs: one line per failed note, then the warning
\* when both tracks are empty.
GenerateErrors(arr, rej) ==
  LET out == GeneratePianoMidi(arr, rej)
  IN  ErrorsFrom("right", arr.rightHand, 1, rej)
      \o ErrorsFrom("left", arr.leftHand, 1, rej)
      \o (IF out[1].notes = <<>> /\ out[2].notes = <<>>
          THEN <<[hand |-> "WARNING: No notes in output tracks!", index |-> 0]>>
          ELSE <<>>)

----------------------------------------------------------------------------
(* Idle values: what a specification leaves the other parts at *)

NoArrangement == [rightHand |-> <<>>, leftHand |-> <<>>]
DefaultOptions    == [splitPoint |-> 60, maxRightHandNotes |-> 12, maxLeftHandNotes |-> 10,
                  dynamicSplitPoint |-> TRUE, preserveMelody |-> TRUE, preserveBass |-> TRUE]

PipelineIdle ==
  /\ pc = "idle" /\ midi = <<>> /\ config = DefaultOptions /\ analyzedTracks = <<>>
  /\ pianoArrangement = NoArrangement /\ outputMidi = <<>>

BalancerIdle ==
  /\ bpc = "idle" /\ rightHandCopy = <<>> /\ leftHandCopy = <<>> /\ bconfig = DefaultOptions
  /\ timeSlices = <<>> /\ sliceIndex = 0
  /\ simultaneousRight = <<>> /\ simultaneousLeft = <<>>
  /\ optimizedRight = <<>> /\ optimizedLeft = <<>> /\ moves = <<>>

EmitIdle ==
  /\ epc = "idle" /\ arrangement = NoArrangement /\ rejected = {} /\ tracks = <<>>
  /\ errorLog = <<>>

----------------------------------------------------------------------------
(* web-interface: the state of the server between requests *)

MaxRequests  == 2   \* POST /optimize requests
MaxClock     == 1   \* Date.now() runs over 0..MaxClock
MaxDownloads == 2   \* GET /download requests

Requests == 1..MaxRequests

\* `input_${timestamp}.mid` and `piano_${timestamp}.mid` in uploadsDir.
InputPath(timestamp)  == <<"input", timestamp>>
OutputPath(timestamp) == <<"piano", timestamp>>

Paths == {InputPath(t) : t \in 0..MaxClock} \cup {OutputPath(t) : t \in 0..MaxClock}

NoFile == [kind |-> "none"]

IdleRequest == [pc |-> "idle", upload |-> "none", timestamp |-> -1, read |-> 0,
                status |-> 0, downloadLink |-> <<>>]

WebIdle ==
  /\ clock = 0
  /\ req = [r \in Requests |-> IdleRequest]
  /\ files = [p \in Paths |-> NoFile]
  /\ timers = <<>>
  /\ dl = <<>>

----------------------------------------------------------------------------
(* optimizeMidiForPiano: the state after new Midi(midiData) has parsed the file *)

Init ==
  /\ pc = "parsed"
  /\ midi \in SeqsUpTo(SourceTracks, MaxTracks)
  /\ config \in Configs
  /\ analyzedTracks = <<>>
  /\ pianoArrangement = NoArrangement
  /\ outputMidi = <<>>
  /\ BalancerIdle /\ EmitIdle /\ WebIdle

\* const analyzedTracks = analyzeMidiTracks(midi)
Analyze ==
  /\ pc = "parsed"
  /\ analyzedTracks' = AnalyzeMidiTracks(midi)
  /\ pc' = "analyzed"
  /\ UNCHANGED <<midi, config, pianoArrangement, outputMidi>>
  /\ UNCHANGED <<balancerVars, emitVars, webVars>>

\* const pianoArrangement = createPianoArrangement(analyzedTracks, config)
Arrange ==
  /\ pc = "analyzed"
  /\ pianoArrangement' = CreatePianoArrangement(analyzedTracks, config)
  /\ pc' = "arranged"
  /\ UNCHANGED <<midi, config, analyzedTracks, outputMidi>>
  /\ UNCHANGED <<balancerVars, emitVars, webVars>>

\* generatePianoMidi(midi.header, pianoArrangement), writeFileSync, return.
\* The notes come from the library's own parser, so its addNote takes them all.
Generate ==
  /\ pc = "arranged"
  /\ outputMidi' = GeneratePianoMidi(pianoArrangement, {})
  /\ pc' = "done"
  /\ UNCHANGED <<midi, config, analyzedTracks, pianoArrangement>>
  /\ UNCHANGED <<balancerVars, emitVars, webVars>>

Next == Analyze \/ Arrange \/ Generate

Spec == Init /\ [][Next]_vars

----------------------------------------------------------------------------
(* Properties of optimizeMidiForPiano *)

Triples(notes) == [i \in 1..Len(notes) |-> <<notes[i].midi, notes[i].time, notes[i].duration>>]

\* The notes of the source tracks that have a note and are not on channel 9,
\* read from the parsed file.
SurvivingSourceNotes ==
  FlatSeq([i \in 1..Len(midi) |->
             IF midi[i].channel # 9 THEN midi[i].notes ELSE <<>>])

Arranged == pc \in {"arranged", "done"}

\* C1: the arrangement partitions the notes of exactly the surviving tracks:
\* as multisets of (pitch, startTime, duration), rightHand plus leftHand is the
\* notes of the tracks that have a note and whose channel is not 9.
C1_ArrangementPartitionsSurvivors ==
  Arranged =>
    BagOf(Triples(pianoArrangement.rightHand \o pianoArrangement.leftHand))
      = BagOf(Triples(SurvivingSourceNotes))

\* A drum track with notes was dropped, a note occurs twice in the source, and
\* both hands got notes.
C1_Witness ==
  /\ pc = "done"
  /\ \E i \in DOMAIN midi : midi[i].channel = 9 /\ midi[i].notes # <<>>
  /\ \E i \in DOMAIN midi :
       /\ midi[i].channel # 9 /\ Len(midi[i].notes) = 2
       /\ midi[i].notes[1] = midi[i].notes[2]
  /\ pianoArrangement.rightHand # <<>> \/ pianoArrangement.leftHand # <<>>

\* C2: in the emitted arrangement no time slice has more right-hand notes
\* active than maxRightHandNotes, nor more left-hand notes than maxLeftHandNotes.
C2_EmittedWithinCeilings ==
  pc = "done" =>
    LET rightHand == pianoArrangement.rightHand
        leftHand  == pianoArrangement.leftHand
        slices    == CreateTimeSlices(rightHand \o leftHand)
    IN  \A k \in DOMAIN slices :
          /\ Cardinality({i \in DOMAIN rightHand :
                 /\ rightHand[i].time <= slices[k].startTime
                 /\ rightHand[i].time + rightHand[i].duration >= slices[k].endTime})
               <= config.maxRightHandNotes
          /\ Cardinality({i \in DOMAIN leftHand :
                 /\ leftHand[i].time <= slices[k].startTime
                 /\ leftHand[i].time + leftHand[i].duration >= slices[k].endTime})
               <= config.maxLeftHandNotes

StripRoles(notes) ==
  [i \in 1..Len(notes) |->
     Note(notes[i].midi, notes[i].time, notes[i].duration, notes[i].velocity)]

\* C3: in the initial distribution a note goes to the right hand iff its
\* track's role is melody or its pitch is >= splitPoint, and to the left hand
\* otherwise: each hand is the flattened stream filtered by that test.
C3_SplitRule ==
  Arranged =>
    LET all == AllNotes(analyzedTracks)
        ToRight(n) == n.trackRole = "melody" \/ ~(n.midi < config.splitPoint)
        ToLeft(n)  == ~ToRight(n)
    IN  /\ pianoArrangement.rightHand = StripRoles(SelectSeq(all, ToRight))
        /\ pianoArrangement.leftHand  = StripRoles(SelectSeq(all, ToLeft))

\* splitPoint = 60: pitch 59 of a non-melody track is left, pitch 60 of a
\* non-melody track is right, pitch 40 of a melody track is right.
C3_Witness ==
  /\ pc = "arranged" /\ config.splitPoint = 60
  /\ Len(midi) = 2 /\ Len(analyzedTracks) = 2
  /\ analyzedTracks[1].trackRole = "melody"
  /\ \E i \in DOMAIN midi[1].notes : midi[1].notes[i].midi = 40
  /\ analyzedTracks[2].trackRole # "melody"
  /\ Pitches(midi[2].notes) = <<59, 60>>
  /\ Pitches(pianoArrangement.leftHand) = <<59>>
  /\ \E i, j \in DOMAIN pianoArrangement.rightHand :
       /\ pianoArrangement.rightHand[i].midi = 40
       /\ pianoArrangement.rightHand[j].midi = 60

\* Sum of (pitch - k) over a track's notes: its sign is the sign of mean - k.
RECURSIVE Excess(_, _)
Excess(notes, k) ==
  IF notes = <<>> THEN 0 ELSE (notes[1].midi - k) + Excess(Tail(notes), k)

Survivors == SelectSeq([i \in 1..Len(midi) |-> [index |-> i - 1, track |-> midi[i]]],
                       LAMBDA e : e.track.notes # <<>> /\ e.track.channel # 9)

\* C4: every non-empty, non-percussion track gets role melody when the mean
\* of its pitches is > 65, bass when it is < 52 and harmony otherwise; no
\* surviving track keeps the role unknown.
C4_RoleByMeanPitch ==
  pc # "parsed" =>
    /\ Len(analyzedTracks) = Len(Survivors)
    /\ \A k \in DOMAIN analyzedTracks :
         LET notes == Survivors[k].track.notes
             role  == analyzedTracks[k].trackRole
         IN  /\ analyzedTracks[k].index = Survivors[k].index
             /\ role \in {"melody", "bass", "harmony"}
             /\ role = "melody" <=> Excess(notes, 65) > 0
             /\ role = "bass" <=> Excess(notes, 52) < 0
             /\ role = "harmony" <=> (Excess(notes, 65) <= 0 /\ Excess(notes, 52) >= 0)

\* One track has mean exactly 65 and another mean exactly 52: both harmony.
C4_Witness ==
  /\ pc = "analyzed" /\ Len(analyzedTracks) = 2
  /\ Excess(midi[1].notes, 65) = 0 /\ analyzedTracks[1].trackRole = "harmony"
  /\ Excess(midi[2].notes, 52) = 0 /\ analyzedTracks[2].trackRole = "harmony"

\* Every setting of the five other options, with the split point of this run.
OtherOptions == {c \in Configs : c.splitPoint = config.splitPoint}

TrackOrders ==
  {p \in [DOMAIN analyzedTracks -> DOMAIN analyzedTracks] :
     \A i, j \in DOMAIN analyzedTracks : p[i] = p[j] => i = j}

\* Melody tracks, then bass tracks, then the others.
RoleRank(role) == IF role = "melody" THEN 1 ELSE IF role = "bass" THEN 2 ELSE 3

\* The order p puts melody before bass before the others, the others in
\* descending note count, and leaves tracks of equal role and equal note
\* count in their original relative order.
PriorityOrder(p) ==
  \A i, j \in DOMAIN p :
    i < j =>
      LET a == analyzedTracks[p[i]]
          b == analyzedTracks[p[j]]
      IN  /\ RoleRank(a.trackRole) <= RoleRank(b.trackRole)
          /\ (RoleRank(a.trackRole) = 3 /\ RoleRank(b.trackRole) = 3)
               => a.noteCount >= b.noteCount
          /\ (a.trackRole = b.trackRole /\ a.noteCount = b.noteCount)
               => p[i] < p[j]

\* The notes of the tracks taken in the order p, each track's in source order.
StreamIn(p) ==
  FlatSeq([k \in 1..Len(analyzedTracks) |->
             [i \in 1..Len(analyzedTracks[p[k]].notes) |->
                [note |-> analyzedTracks[p[k]].notes[i],
                 melody |-> analyzedTracks[p[k]].trackRole = "melody"]]])

\* C14: the tracks are flattened in an order that has every melody track
\* before every bass track and every bass track before every other track,
\* the other tracks in descending note count, and tracks of equal role and
\* equal note count in their original relative order; each track's notes
\* stay in source order, and each hand is a subsequence of that stream.
C14_PriorityOrderThenFlatten ==
  Arranged =>
    \E p \in TrackOrders :
      /\ PriorityOrder(p)
      /\ LET stream == StreamIn(p)
             ToRight(e) == e.melody \/ e.note.midi >= config.splitPoint
             ToLeft(e)  == ~ToRight(e)
             right == SelectSeq(stream, ToRight)
             left  == SelectSeq(stream, ToLeft)
         IN  /\ pianoArrangement.rightHand = [i \in 1..Len(right) |-> right[i].note]
             /\ pianoArrangement.leftHand  = [i \in 1..Len(left) |-> left[i].note]

\* Two harmony tracks, the first with one note (59) and the second with two
\* (60, 65), all at or above the split point: the second track's notes come
\* first in the right hand.
C14_Witness ==
  /\ pc = "arranged" /\ config.splitPoint = 53
  /\ Len(analyzedTracks) = 2
  /\ analyzedTracks[1].trackRole = "harmony" /\ Pitches(analyzedTracks[1].notes) = <<59>>
  /\ analyzedTracks[2].trackRole = "harmony" /\ Pitches(analyzedTracks[2].notes) = <<60, 65>>
  /\ Pitches(pianoArrangement.rightHand) = <<60, 65, 59>>

\* A bass track that follows a harmony track in the file comes first.
C14_WitnessBassFirst ==
  /\ pc = "arranged" /\ config.splitPoint = 53
  /\ Len(analyzedTracks) = 2
  /\ analyzedTracks[1].trackRole = "harmony" /\ Pitches(analyzedTracks[1].notes) = <<52, 52>>
  /\ analyzedTracks[2].trackRole = "bass" /\ Pitches(analyzedTracks[2].notes) = <<40>>
  /\ Pitches(pianoArrangement.leftHand) = <<40, 52, 52>>

----------------------------------------------------------------------------
(* generatePianoMidi on its own: any arrangement, any set of rejected notes *)

MaxHandNotes == 2   \* notes per hand of the arrangement handed to generatePianoMidi

EmitNotes == { Note(60, 0, 1, 0), Note(64, 1, 1, 100), Note(128, 0, 1, 100) }

EmitInit ==
  /\ epc = "called"
  /\ arrangement \in [rightHand : SeqsUpTo(EmitNotes, MaxHandNotes),
                      leftHand  : SeqsUpTo(EmitNotes, MaxHandNotes)]
  /\ rejected \in SUBSET {AddNoteArgument(n) : n \in EmitNotes}
  /\ tracks = <<>>
  /\ errorLog = <<>>
  /\ PipelineIdle /\ BalancerIdle /\ WebIdle

EmitGenerate ==
  /\ epc = "called"
  /\ tracks' = GeneratePianoMidi(arrangement, rejected)
  /\ errorLog' = GenerateErrors(arrangement, rejected)
  /\ epc' = "returned"
  /\ UNCHANGED <<arrangement, rejected>>
  /\ UNCHANGED <<pipelineVars, balancerVars, webVars>>

EmitNext == EmitGenerate

EmitSpec == EmitInit /\ [][EmitNext]_vars

\* The notes of a hand that the library takes, in arrangement order.
Accepted(notes) ==
  SelectSeq([i \in 1..Len(notes) |->
               Note(notes[i].midi, notes[i].time, notes[i].duration,
                    IF notes[i].velocity = 0 THEN 64 ELSE notes[i].velocity)],
            LAMBDA n : n \notin rejected)

\* C7: a note whose addNote fails does not abort generatePianoMidi: every
\* other note of both hands is added, in arrangement order, to its own track,
\* and the output has exactly the two tracks "Right Hand" then "Left Hand",
\* also when every note fails and both tracks are empty.
C7_FailedNoteDoesNotAbort ==
  epc = "returned" =>
    /\ Len(tracks) = 2
    /\ tracks[1].name = "Right Hand" /\ tracks[2].name = "Left Hand"
    /\ tracks[1].notes = Accepted(arrangement.rightHand)
    /\ tracks[2].notes = Accepted(arrangement.leftHand)

\* The first right-hand note fails, the second is added, and the left hand
\* fails entirely.
C7_Witness ==
  /\ epc = "returned"
  /\ Len(arrangement.rightHand) = 2 /\ Len(arrangement.leftHand) = 2
  /\ AddNoteArgument(arrangement.rightHand[1]) \in rejected
  /\ tracks[1].notes = <<AddNoteArgument(arrangement.rightHand[2])>>
  /\ tracks[2].notes = <<>>
  /\ Len(errorLog) = 3

\* Every note fails: both tracks are empty, the warning is logged and the
\* two tracks are still returned.
C7_WitnessAllFail ==
  /\ epc = "returned"
  /\ Len(arrangement.rightHand) = 2 /\ Len(arrangement.leftHand) = 2
  /\ tracks[1].notes = <<>> /\ tracks[2].notes = <<>>
  /\ Len(errorLog) = 5

----------------------------------------------------------------------------
(* optimizeSimultaneousNotes, one loop iteration at a time *)

MaxBalancerNotes == 3   \* notes handed to the balancer, both hands together
MaxEnd           == 2   \* latest end of a note, in whole seconds
MaxCeiling       == 2   \* largest maxRightHandNotes / maxLeftHandNotes tried

BalancerPitches == {70, 72, 75}

\* A note whose note-off falls on the tick of its note-on has duration 0.
BalancerNotes ==
  { n \in [midi : BalancerPitches, time : 0..(MaxEnd - 1), duration : 0..MaxEnd,
           velocity : {DefaultVelocity}] : n.time + n.duration <= MaxEnd }

BalancerConfigs ==
  { [DefaultOptions EXCEPT !.maxRightHandNotes = r, !.maxLeftHandNotes = l] :
      r \in 0..MaxCeiling, l \in 0..MaxCeiling }

\* simultaneousLeft.reduce((a, b) => a.midi > b.midi ? a : b), as the
\* position of the element it returns: the accumulator a is kept only when it
\* is strictly higher than the element b under the scan.
RECURSIVE ReduceHighest(_, _, _)
ReduceHighest(notes, acc, i) ==
  IF i > Len(notes) THEN acc
  ELSE ReduceHighest(notes, IF notes[acc].midi > notes[i].midi THEN acc ELSE i, i + 1)

HighestIndex(notes) == ReduceHighest(notes, 1, 2)

\* simultaneousRight.reduce((a, b) => a.midi < b.midi ? a : b), likewise.
RECURSIVE ReduceLowest(_, _, _)
ReduceLowest(notes, acc, i) ==
  IF i > Len(notes) THEN acc
  ELSE ReduceLowest(notes, IF notes[acc].midi < notes[i].midi THEN acc ELSE i, i + 1)

\* The comparison turned round: the highest note is taken.
LowestIndexWrongEnd(notes) == ReduceHighest(notes, 1, 2)

\* a.midi <= b.midi ? a : b: the accumulator survives a tie.
RECURSIVE ReduceLowestKeepTie(_, _, _)
ReduceLowestKeepTie(notes, acc, i) ==
  IF i > Len(notes) THEN acc
  ELSE ReduceLowestKeepTie(notes, IF notes[acc].midi <= notes[i].midi THEN acc ELSE i, i + 1)

LowestIndexKeepTie(notes) == ReduceLowestKeepTie(notes, 1, 2)

LowestIndex(notes) == ReduceLowest(notes, 1, 2)

\* notes.splice(i) with the deleteCount left out: everything from i on goes.
SpliceMut(notes, i) == SubSeq(notes, 1, i - 1)

\* notes.splice(i, 1)
Splice(notes, i) == SubSeq(notes, 1, i - 1) \o SubSeq(notes, i + 1, Len(notes))

\* n.time === note.time alone: notes that start together count as one.
SameKeyMut(a, b) == a.time = b.time

\* n.time === note.time && n.midi === note.midi
SameKey(a, b) == a.time = b.time /\ a.midi = b.midi

\* forEach note of a subset: push a copy unless the result already has a note
\* of the same time and midi.
RECURSIVE MergeInto(_, _)
MergeInto(optimized, subset) ==
  IF subset = <<>> THEN optimized
  ELSE MergeInto(IF \E i \in DOMAIN optimized : SameKey(optimized[i], subset[1])
                 THEN optimized
                 ELSE Append(optimized, subset[1]),
                 Tail(subset))

BalancerInit ==
  /\ bpc = "called"
  /\ rightHandCopy \in SeqsUpTo(BalancerNotes, MaxBalancerNotes)
  /\ leftHandCopy \in SeqsUpTo(BalancerNotes, MaxBalancerNotes)
  /\ Len(rightHandCopy) + Len(leftHandCopy) <= MaxBalancerNotes
  /\ bconfig \in BalancerConfigs
  /\ timeSlices = <<>> /\ sliceIndex = 0
  /\ simultaneousRight = <<>> /\ simultaneousLeft = <<>>
  /\ optimizedRight = <<>> /\ optimizedLeft = <<>> /\ moves = <<>>
  /\ PipelineIdle /\ EmitIdle /\ WebIdle

\* const timeSlices = createTimeSlices([...rightHandCopy, ...leftHandCopy])
BCreateTimeSlices ==
  /\ bpc = "called"
  /\ timeSlices' = CreateTimeSlices(rightHandCopy \o leftHandCopy)
  /\ sliceIndex' = 1
  /\ bpc' = "filter"
  /\ UNCHANGED <<rightHandCopy, leftHandCopy, bconfig, simultaneousRight,
                 simultaneousLeft, optimizedRight, optimizedLeft, moves>>
  /\ UNCHANGED <<pipelineVars, emitVars, webVars>>

\* The two filters at the head of the forEach body.
BFilter ==
  /\ bpc = "filter" /\ sliceIndex <= Len(timeSlices)
  /\ LET slice == timeSlices[sliceIndex]
     IN  /\ simultaneousRight' = FilterActive(rightHandCopy, slice.startTime, slice.endTime)
         /\ simultaneousLeft' = FilterActive(leftHandCopy, slice.startTime, slice.endTime)
  /\ moves' = <<>>
  /\ bpc' = "step1"
  /\ UNCHANGED <<rightHandCopy, leftHandCopy, bconfig, timeSlices, sliceIndex,
                 optimizedRight, optimizedLeft>>
  /\ UNCHANGED <<pipelineVars, emitVars, webVars>>

\* One iteration of while (simultaneousRight.length > config.maxRightHandNotes).
BMoveLowest ==
  /\ bpc = "step1" /\ Len(simultaneousRight) > bconfig.maxRightHandNotes
  /\ LET i == LowestIndex(simultaneousRight)
     IN  /\ simultaneousRight' = Splice(simultaneousRight, i)
         /\ simultaneousLeft' = Append(simultaneousLeft, simultaneousRight[i])
         /\ moves' = Append(moves, [step |-> 1, index |-> i, from |-> simultaneousRight,
                                    note |-> simultaneousRight[i]])
  /\ UNCHANGED <<bpc, rightHandCopy, leftHandCopy, bconfig, timeSlices, sliceIndex,
                 optimizedRight, optimizedLeft>>
  /\ UNCHANGED <<pipelineVars, emitVars, webVars>>

\* The first while loop ends.
BStep1Done ==
  /\ bpc = "step1" /\ ~(Len(simultaneousRight) > bconfig.maxRightHandNotes)
  /\ bpc' = "step2"
  /\ UNCHANGED <<rightHandCopy, leftHandCopy, bconfig, timeSlices, sliceIndex,
                 simultaneousRight, simultaneousLeft, optimizedRight, optimizedLeft, moves>>
  /\ UNCHANGED <<pipelineVars, emitVars, webVars>>

\* One iteration of while (simultaneousLeft.length > config.maxLeftHandNotes).
BMoveHighest ==
  /\ bpc = "step2" /\ Len(simultaneousLeft) > bconfig.maxLeftHandNotes
  /\ LET i == HighestIndex(simultaneousLeft)
     IN  /\ simultaneousLeft' = Splice(simultaneousLeft, i)
         /\ simultaneousRight' = Append(simultaneousRight, simultaneousLeft[i])
         /\ moves' = Append(moves, [step |-> 2, index |-> i, from |-> simultaneousLeft,
                                    note |-> simultaneousLeft[i]])
  /\ UNCHANGED <<bpc, rightHandCopy, leftHandCopy, bconfig, timeSlices, sliceIndex,
                 optimizedRight, optimizedLeft>>
  /\ UNCHANGED <<pipelineVars, emitVars, webVars>>

\* The second while loop ends.
BStep2Done ==
  /\ bpc = "step2" /\ ~(Len(simultaneousLeft) > bconfig.maxLeftHandNotes)
  /\ bpc' = "merge"
  /\ UNCHANGED <<rightHandCopy, leftHandCopy, bconfig, timeSlices, sliceIndex,
                 simultaneousRight, simultaneousLeft, optimizedRight, optimizedLeft, moves>>
  /\ UNCHANGED <<pipelineVars, emitVars, webVars>>

\* The two forEach loops that add the slice's notes to the result.
BMerge ==
  /\ bpc = "merge"
  /\ optimizedRight' = MergeInto(optimizedRight, simultaneousRight)
  /\ optimizedLeft' = MergeInto(optimizedLeft, simultaneousLeft)
  /\ sliceIndex' = sliceIndex + 1
  /\ bpc' = "filter"
  /\ UNCHANGED <<rightHandCopy, leftHandCopy, bconfig, timeSlices,
                 simultaneousRight, simultaneousLeft, moves>>
  /\ UNCHANGED <<pipelineVars, emitVars, webVars>>

\* return { rightHand: optimizedRight, leftHand: optimizedLeft }
BReturn ==
  /\ bpc = "filter" /\ sliceIndex > Len(timeSlices)
  /\ bpc' = "returned"
  /\ UNCHANGED <<rightHandCopy, leftHandCopy, bconfig, timeSlices, sliceIndex,
                 simultaneousRight, simultaneousLeft, optimizedRight, optimizedLeft, moves>>
  /\ UNCHANGED <<pipelineVars, emitVars, webVars>>

BalancerNext ==
  \/ BCreateTimeSlices \/ BFilter \/ BMoveLowest \/ BStep1Done
  \/ BMoveHighest \/ BStep2Done \/ BMerge \/ BReturn

BalancerSpec == BalancerInit /\ [][BalancerNext]_vars

----------------------------------------------------------------------------
(* Properties of optimizeSimultaneousNotes *)

Key(n) == <<n.time, n.midi>>

Keys(notes) == {Key(notes[i]) : i \in DOMAIN notes}

\* The input notes have pairwise distinct (startTime, pitch) pairs.
DistinctKeys ==
  LET input == rightHandCopy \o leftHandCopy
  IN  \A i, j \in DOMAIN input : Key(input[i]) = Key(input[j]) => i = j

\* C5: for an input with pairwise distinct (startTime, pitch) pairs, no
\* (startTime, pitch) pair occurs in both returned hands.
C5_NoNoteInBothHands ==
  (bpc = "returned" /\ DistinctKeys) =>
    Keys(optimizedRight) \cap Keys(optimizedLeft) = {}

\* The slice under work, and the subsets its two filters gave.
CurrentSlice == timeSlices[sliceIndex]

ActiveRight ==
  SelectSeq(rightHandCopy,
            LAMBDA n : n.time <= CurrentSlice.startTime
                       /\ n.time + n.duration >= CurrentSlice.endTime)

ActiveLeft ==
  SelectSeq(leftHandCopy,
            LAMBDA n : n.time <= CurrentSlice.startTime
                       /\ n.time + n.duration >= CurrentSlice.endTime)

\* Step 1 of the slice has ended and step 2 has moved nothing yet.
AfterStep1 == bpc = "step2" /\ \A k \in DOMAIN moves : moves[k].step = 1

Smaller(a, b) == IF a < b THEN a ELSE b

\* C6: step 1 on a slice with n active right-hand notes leaves exactly
\* min(n, maxRightHandNotes) notes in the right subset, appends the removed
\* notes to the end of the left subset, and removes lowest pitches first:
\* every moved note is no higher than any note that stays.
C6_Step1MovesLowest ==
  AfterStep1 =>
    LET moved == [k \in 1..Len(moves) |-> moves[k].note]
    IN  /\ Len(simultaneousRight) = Smaller(Len(ActiveRight), bconfig.maxRightHandNotes)
        /\ simultaneousLeft = ActiveLeft \o moved
        /\ BagOf(simultaneousRight \o moved) = BagOf(ActiveRight)
        /\ \A k \in DOMAIN moved : \A i \in DOMAIN simultaneousRight :
             moved[k].midi <= simultaneousRight[i].midi
        /\ \A k, l \in DOMAIN moved : k < l => moved[k].midi <= moved[l].midi

\* Pitches 70, 72, 75 with ceiling 2: 70 is moved, 72 and 75 stay.
C6_Witness ==
  /\ AfterStep1
  /\ bconfig.maxRightHandNotes = 2
  /\ {ActiveRight[i].midi : i \in DOMAIN ActiveRight} = {70, 72, 75}
  /\ Len(ActiveRight) = 3
  /\ Len(moves) = 1 /\ moves[1].note.midi = 70
  /\ {simultaneousRight[i].midi : i \in DOMAIN simultaneousRight} = {72, 75}
  /\ simultaneousLeft[Len(simultaneousLeft)].midi = 70

\* The positions of the notes of lowest, and of highest, pitch in a subset.
LowestPositions(notes) ==
  {i \in DOMAIN notes : \A j \in DOMAIN notes : notes[i].midi <= notes[j].midi}

HighestPositions(notes) ==
  {i \in DOMAIN notes : \A j \in DOMAIN notes : notes[i].midi >= notes[j].midi}

First(S) == CHOOSE i \in S : \A j \in S : i <= j
Last(S)  == CHOOSE i \in S : \A j \in S : i >= j

\* C10 as stated: under a pitch tie step 1 removes the earliest-positioned
\* note of lowest pitch and step 2 the earliest-positioned note of highest
\* pitch, in the subset's then-current order.
C10_RemovesFirstOfTies ==
  \A k \in DOMAIN moves :
    /\ moves[k].step = 1 => moves[k].index = First(LowestPositions(moves[k].from))
    /\ moves[k].step = 2 => moves[k].index = First(HighestPositions(moves[k].from))

\* C10 as amended: under a pitch tie step 1 removes the latest-positioned note
\* of lowest pitch and step 2 the latest-positioned note of highest pitch, in
\* the subset's then-current order.
C10_RemovesLastOfTies ==
  \A k \in DOMAIN moves :
    /\ moves[k].note = moves[k].from[moves[k].index]
    /\ moves[k].step = 1 => moves[k].index = Last(LowestPositions(moves[k].from))
    /\ moves[k].step = 2 => moves[k].index = Last(HighestPositions(moves[k].from))

\* One slice in which step 1 and then step 2 each chose among tied notes, and
\* neither removed the first of them.
C10_Witness ==
  /\ bpc = "merge"
  /\ \E k, l \in DOMAIN moves :
       /\ moves[k].step = 1 /\ Cardinality(LowestPositions(moves[k].from)) > 1
       /\ moves[k].index # First(LowestPositions(moves[k].from))
       /\ moves[l].step = 2 /\ Cardinality(HighestPositions(moves[l].from)) > 1
       /\ moves[l].index # First(HighestPositions(moves[l].from))

\* C11: in every slice, once step 1 and then step 2 have each run once, the
\* left subset has at most maxLeftHandNotes notes and the two subsets together
\* have as many notes as were active in the slice; the right subset is within
\* maxRightHandNotes iff the notes active over both hands number at most
\* maxRightHandNotes + maxLeftHandNotes: step 2 can put the right hand over
\* its ceiling again, and nothing looks at it afterwards.
C11_TwoPassesRunOnce ==
  bpc = "merge" =>
    LET total == Len(ActiveRight) + Len(ActiveLeft)
    IN  /\ \A k, l \in DOMAIN moves : k < l => moves[k].step <= moves[l].step
        /\ Len(simultaneousLeft) <= bconfig.maxLeftHandNotes
        /\ Len(simultaneousRight) + Len(simultaneousLeft) = total
        /\ (Len(simultaneousRight) <= bconfig.maxRightHandNotes)
             <=> (total <= bconfig.maxRightHandNotes + bconfig.maxLeftHandNotes)

\* Step 1 brought the right subset down to its ceiling, step 2 then sent a
\* note back, and the slice is merged with the right subset over its ceiling.
C11_Witness ==
  /\ bpc = "merge"
  /\ \E k, l \in DOMAIN moves : moves[k].step = 1 /\ moves[l].step = 2
  /\ bconfig.maxLeftHandNotes > 0
  /\ Len(simultaneousLeft) = bconfig.maxLeftHandNotes
  /\ Len(simultaneousRight) > bconfig.maxRightHandNotes

\* The notes createTimeSlices was given, and the start and end times in them.
Input == rightHandCopy \o leftHandCopy

Boundaries ==
  {Input[i].time : i \in DOMAIN Input}
    \cup {Input[i].time + Input[i].duration : i \in DOMAIN Input}

\* createTimeSlices has returned.
Sliced == bpc # "called"

\* One slice between each adjacent pair of the ascending distinct timepoints.
AdjacentPairs ==
  /\ \A k \in DOMAIN timeSlices :
       /\ timeSlices[k].startTime \in Boundaries
       /\ timeSlices[k].endTime \in Boundaries
       /\ timeSlices[k].startTime < timeSlices[k].endTime
       /\ timeSlices[k].duration = timeSlices[k].endTime - timeSlices[k].startTime
       /\ ~\E b \in Boundaries :
             timeSlices[k].startTime < b /\ b < timeSlices[k].endTime
  /\ \A k \in 1..(Len(timeSlices) - 1) :
       timeSlices[k].endTime = timeSlices[k + 1].startTime
  /\ Cardinality(Boundaries) >= 2 => Len(timeSlices) = Cardinality(Boundaries) - 1

\* C12 as stated: one slice between each adjacent pair of the ascending
\* distinct timepoints, so (number of distinct timepoints - 1) slices; an
\* input with fewer than 2 distinct timepoints, such as a single note or an
\* empty input, yields zero slices.
C12_SingleNoteGivesNoSlice ==
  Sliced =>
    /\ AdjacentPairs
    /\ (Cardinality(Boundaries) < 2 \/ Len(Input) <= 1) => Len(timeSlices) = 0

\* C12 as amended: one slice between each adjacent pair of the ascending
\* distinct timepoints, so (number of distinct timepoints - 1) slices when
\* there are at least 2; an input with fewer than 2 distinct timepoints (an
\* empty input, or notes of duration 0 that all start together) yields zero
\* slices, and a single note yields one slice unless its duration is 0.
C12_OneSlicePerAdjacentPair ==
  Sliced =>
    /\ AdjacentPairs
    /\ Cardinality(Boundaries) < 2 => Len(timeSlices) = 0
    /\ Input = <<>> => Len(timeSlices) = 0
    /\ Len(Input) = 1 =>
         Len(timeSlices) = (IF Input[1].duration = 0 THEN 0 ELSE 1)

\* A single note of positive duration was sliced, and one slice came back.
C12_Witness ==
  /\ Sliced
  /\ Len(Input) = 1 /\ Input[1].duration > 0
  /\ Len(timeSlices) = 1
  /\ timeSlices[1].startTime = Input[1].time
  /\ timeSlices[1].endTime = Input[1].time + Input[1].duration

\* A single note of duration 0, and three notes with three timepoints.
C12_WitnessDegenerate ==
  /\ Sliced /\ Len(Input) = 1 /\ Input[1].duration = 0 /\ timeSlices = <<>>

C12_WitnessThreeTimepoints ==
  /\ Sliced /\ Len(Input) = 3 /\ Cardinality(Boundaries) = 3 /\ Len(timeSlices) = 2

AllDurationsPositive == \A i \in DOMAIN Input : Input[i].duration > 0

\* C15: the balancer loses no note: for an input whose notes all have
\* duration > 0, every input note is active in at least one slice, and the
\* returned rightHand or leftHand has a note of the same (startTime, pitch).
C15_BalancerLosesNoNote ==
  (bpc = "returned" /\ AllDurationsPositive) =>
    \A i \in DOMAIN Input :
      /\ \E k \in DOMAIN timeSlices :
           /\ Input[i].time <= timeSlices[k].startTime
           /\ Input[i].time + Input[i].duration >= timeSlices[k].endTime
      /\ \E n \in Range(optimizedRight) \cup Range(optimizedLeft) :
           n.time = Input[i].time /\ n.midi = Input[i].midi

\* Three notes of positive duration went in, and a right-hand note came back
\* in the left hand only.
C15_Witness ==
  /\ bpc = "returned" /\ AllDurationsPositive
  /\ Len(Input) = 3
  /\ \E i \in DOMAIN rightHandCopy :
       /\ Key(rightHandCopy[i]) \in Keys(optimizedLeft)
       /\ Key(rightHandCopy[i]) \notin Keys(optimizedRight)

\* Two notes of one hand share (startTime, pitch) and differ in duration: one
\* note of that key comes back.
C15_WitnessSharedKey ==
  /\ bpc = "returned" /\ AllDurationsPositive
  /\ Len(rightHandCopy) = 2 /\ leftHandCopy = <<>>
  /\ Key(rightHandCopy[1]) = Key(rightHandCopy[2])
  /\ rightHandCopy[1].duration # rightHandCopy[2].duration
  /\ Len(optimizedRight) + Len(optimizedLeft) = 1

\* A note of duration 0 is active in no slice and does not come back.
C15_WitnessZeroDurationLost ==
  /\ bpc = "returned"
  /\ \E i \in DOMAIN Input :
       /\ Input[i].duration = 0
       /\ Key(Input[i]) \notin Keys(optimizedRight) \cup Keys(optimizedLeft)

\* The containment test of the code, and the looser overlap test.
Contains(n, s) == n.time <= s.startTime /\ n.time + n.duration >= s.endTime

Overlaps(n, s) == n.time < s.endTime /\ n.time + n.duration > s.startTime

\* C16: on the slices createTimeSlices builds from a note set, the
\* containment test and the overlap test agree on every note of the set that
\* has duration > 0: no note of the set overlaps a slice without spanning it,
\* and the notes a slice records are the notes that overlap it.
C16_ContainmentIsOverlap ==
  Sliced =>
    \A k \in DOMAIN timeSlices :
      /\ \A i \in DOMAIN Input :
           Input[i].duration > 0 =>
             (Contains(Input[i], timeSlices[k]) <=> Overlaps(Input[i], timeSlices[k]))
      /\ timeSlices[k].notes =
           SelectSeq(Input, LAMBDA n : n.duration > 0 /\ Overlaps(n, timeSlices[k]))

\* A note over [0,2) and a note over [1,2): two slices, the first note spans
\* both, the second touches the first slice at its end only.
C16_Witness ==
  /\ Sliced /\ Len(timeSlices) = 2
  /\ \E i, j \in DOMAIN Input :
       /\ Input[i].time = 0 /\ Input[i].duration = 2
       /\ Input[j].time = 1 /\ Input[j].duration = 1
       /\ Contains(Input[i], timeSlices[1]) /\ Contains(Input[i], timeSlices[2])
       /\ ~Overlaps(Input[j], timeSlices[1]) /\ Contains(Input[j], timeSlices[2])

----------------------------------------------------------------------------
(* web-interface: POST /optimize, GET /download/:filename and the timers *)

\* What a request carries: no file, a file with a wrong extension, a MIDI
\* file the optimizer can read, a .mid file it cannot parse.
Uploads == {"missing", "wrongType", "midi", "corrupt"}

WebInit == WebIdle /\ PipelineIdle /\ BalancerIdle /\ EmitIdle

Exists(p) == files[p] # NoFile

\* Date.now() advances.
Tick ==
  /\ clock < MaxClock
  /\ clock' = clock + 1
  /\ UNCHANGED <<req, files, timers, dl>>
  /\ UNCHANGED <<pipelineVars, balancerVars, emitVars>>

\* The handler up to `await midiFile.mv(inputPath)`: the two 400 answers, or
\* the timestamp is taken and the move is started.
Receive(r) ==
  /\ req[r].pc = "idle"
  /\ \E u \in Uploads :
       req' = [req EXCEPT ![r] =
                 IF u \in {"missing", "wrongType"}
                 THEN [@ EXCEPT !.pc = "responded", !.upload = u, !.status = 400]
                 ELSE [@ EXCEPT !.pc = "moving", !.upload = u, !.timestamp = clock]]
  /\ UNCHANGED <<clock, files, timers, dl>>
  /\ UNCHANGED <<pipelineVars, balancerVars, emitVars>>

\* The move writes the upload over whatever the path holds; the handler is
\* resumed later, from the event loop.
MvWrites(r) ==
  /\ req[r].pc = "moving"
  /\ files' = [files EXCEPT ![InputPath(req[r].timestamp)] =
                 [kind |-> "input", owner |-> r, upload |-> req[r].upload]]
  /\ req' = [req EXCEPT ![r].pc = "moved"]
  /\ UNCHANGED <<clock, timers, dl>>
  /\ UNCHANGED <<pipelineVars, balancerVars, emitVars>>

\* The move fails: the catch block answers 500.
MvFails(r) ==
  /\ req[r].pc = "moving"
  /\ req' = [req EXCEPT ![r].pc = "responded", ![r].status = 500]
  /\ UNCHANGED <<clock, files, timers, dl>>
  /\ UNCHANGED <<pipelineVars, balancerVars, emitVars>>

\* The rest of the handler, which runs without yielding to another request:
\* optimizeMidiForPiano reads inputPath and writes outputPath, the answer
\* carries the download link and the input file's removal is scheduled; when
\* the optimizer throws, the catch block answers 500.
Optimize(r) ==
  /\ req[r].pc = "moved"
  /\ LET inputPath  == InputPath(req[r].timestamp)
         outputPath == OutputPath(req[r].timestamp)
         source     == files[inputPath]
     IN  IF Exists(inputPath) /\ source.upload = "midi"
         THEN /\ files' = [files EXCEPT ![outputPath] =
                             [kind |-> "output", owner |-> r, from |-> source.owner]]
              /\ req' = [req EXCEPT ![r].pc = "responded", ![r].status = 200,
                                    ![r].read = source.owner,
                                    ![r].downloadLink = outputPath]
              /\ timers' = Append(timers, inputPath)
         ELSE /\ req' = [req EXCEPT ![r].pc = "responded", ![r].status = 500,
                                    ![r].read = IF Exists(inputPath) THEN source.owner ELSE 0]
              /\ UNCHANGED <<files, timers>>
  /\ UNCHANGED <<clock, dl>>
  /\ UNCHANGED <<pipelineVars, balancerVars, emitVars>>

\* GET /download/:filename: 404 when the file is not there, else the
\* transfer is started.
Download(p) ==
  /\ Len(dl) < MaxDownloads
  /\ dl' = Append(dl, [path |-> p, pc |-> IF Exists(p) THEN "sending" ELSE "notFound"])
  /\ UNCHANGED <<clock, req, files, timers>>
  /\ UNCHANGED <<pipelineVars, balancerVars, emitVars>>

\* The callback of res.download without an error: the removal is scheduled.
DownloadSent(d) ==
  /\ dl[d].pc = "sending"
  /\ Exists(dl[d].path)
  /\ dl' = [dl EXCEPT ![d].pc = "sent"]
  /\ timers' = Append(timers, dl[d].path)
  /\ UNCHANGED <<clock, req, files>>
  /\ UNCHANGED <<pipelineVars, balancerVars, emitVars>>

\* The callback of res.download with an error: it is logged, nothing else.
DownloadFails(d) ==
  /\ dl[d].pc = "sending"
  /\ dl' = [dl EXCEPT ![d].pc = "error"]
  /\ UNCHANGED <<clock, req, files, timers>>
  /\ UNCHANGED <<pipelineVars, balancerVars, emitVars>>

\* A setTimeout callback: fs.unlinkSync(path), its error caught and logged.
TimerFires(i) ==
  /\ timers' = Splice(timers, i)
  /\ files' = [files EXCEPT ![timers[i]] = NoFile]
  /\ UNCHANGED <<clock, req, dl>>
  /\ UNCHANGED <<pipelineVars, balancerVars, emitVars>>

WebNext ==
  \/ Tick
  \/ \E r \in Requests : Receive(r) \/ MvWrites(r) \/ MvFails(r) \/ Optimize(r)
  \/ \E p \in Paths : Download(p)
  \/ \E d \in DOMAIN dl : DownloadSent(d) \/ DownloadFails(d)
  \/ \E i \in DOMAIN timers : TimerFires(i)

WebSpec == WebInit /\ [][WebNext]_vars

----------------------------------------------------------------------------
(* Properties of the web interface *)

\* The handler of r has taken its timestamp and has not answered yet.
InFlight(r) == req[r].pc \in {"moving", "moved"}

\* The optimizer has run for r.
OptimizerRan(r) == req[r].pc = "responded" /\ req[r].status # 400 /\ req[r].read # 0

\* C8: two in-flight requests never share an input or an output staging
\* path, the optimizer run of a request reads the file this request uploaded,
\* and the output it writes is named by this request's download link only.
C8_RequestsIndependent ==
  /\ \A r1, r2 \in Requests :
       (r1 # r2 /\ InFlight(r1) /\ InFlight(r2)) =>
         /\ InputPath(req[r1].timestamp) # InputPath(req[r2].timestamp)
         /\ OutputPath(req[r1].timestamp) # OutputPath(req[r2].timestamp)
  /\ \A r \in Requests : OptimizerRan(r) => req[r].read = r
  /\ \A r1, r2 \in Requests :
       (r1 # r2 /\ req[r1].status = 200 /\ req[r2].status = 200) =>
         req[r1].downloadLink # req[r2].downloadLink

\* Nothing is left to run in the server: every handler has answered, no
\* transfer is under way and no timer is pending.
Quiet ==
  /\ \A r \in Requests : req[r].pc \in {"idle", "responded"}
  /\ \A d \in DOMAIN dl : dl[d].pc # "sending"
  /\ timers = <<>>

\* C9: every temporary file a request creates is removed in the end,
\* whatever the outcome: once nothing is left to run, the staging directory
\* holds neither a staged input file nor a generated output file.
C9_TemporaryFilesRemoved ==
  Quiet => \A p \in Paths : ~Exists(p)

====
